---- MODULE Spec2Model ----
(***************************************************************************)
(* A model of clang-includes: the reconstruction of header intervals from  *)
(* Clang -ftime-trace events (clang-trace-to-profiler.js and               *)
(* clang-trace-to-dashboard.js), the include hierarchy and self time, the  *)
(* sequential merge of compilation units and the Firefox Profiler tables.  *)
(***************************************************************************)
EXTENDS Integers, Sequences, FiniteSets, TLC

VARIABLES
    pc,             \* position of the running function
    events,         \* traceData.traceEvents of the unit being matched
    endMap,         \* extractSourceMarkers: key -> pool of end events (indices into events)
    bi,             \* extractSourceMarkers: number of begin events already handled
    intervals,      \* extractSourceMarkers: the intervals matched so far
    tool,           \* which of the two converters runs
    hi,             \* number of intervals the hierarchy loop has handled
    stack,          \* extractSourceMarkers: the local stack (interval objects) of the last iteration
    sourceMarkers,  \* extractSourceMarkers: the markers built so far
    result,         \* buildIncludeHierarchy: the entries built so far
    tables,         \* convertToProfiler: string, func, frame and stack tables with their caches
    calls,          \* history of the table requests: first answer per key, and the last call
    mode,           \* main: "directory" or "single" (what the input path is)
    jsonFiles,      \* main: the input files, each with what parsing and matching it yields
    fi,             \* main: number of files handled
    allSourceMarkers, \* main: the units kept, {file, markers}
    timeOffset,     \* mergeIntoProfile: running offset
    ui,             \* mergeIntoProfile: number of units handled
    samples,        \* convertToProfiler: samples table
    mi,             \* convertToProfiler: number of markers handled
    compilationUnitsData, \* dashboard main: the units kept
                    \* ({name, buildTime, includes})
    fileUsageCount, \* dashboard main: the Map file -> count, entries in insertion order
    output,         \* dashboard main: the output structure being built
    traces,         \* the event arrays of the units of a run, in processing order
    unitResults     \* what the reconstruction returned for the units handled so far

matchVars == <<events, endMap, bi>>
hierVars == <<tool, hi, stack, sourceMarkers, result>>
tableVars == <<tables, calls>>
mainVars == <<mode, jsonFiles, fi, allSourceMarkers, timeOffset, ui, samples, mi>>
dashVars == <<compilationUnitsData, fileUsageCount, output>>
unitVars == <<traces, unitResults>>
vars == <<pc, events, endMap, bi, intervals, tool, hi, stack, sourceMarkers, result,
          tables, calls, mode, jsonFiles, fi, allSourceMarkers, timeOffset, ui, samples, mi,
          compilationUnitsData, fileUsageCount, output, traces, unitResults>>

(***************************************************************************)
(* Bounds of the model.                                                    *)
(***************************************************************************)
MaxEvents == 4
MaxTs == 2
MaxIntervals == 4
MaxT == 3
MaxCalls == 4
MaxFiles == 3
MaxUnits == 2
MaxPerUnit == 2
MaxUnitEvents == 4
MaxTraces == 2

(***************************************************************************)
(* Generic helpers.                                                        *)
(***************************************************************************)
SeqsUpTo(S, n) == UNION {[1..k -> S] : k \in 0..n}

Range(s) == {s[i] : i \in DOMAIN s}

NoRemove(s, p) == s
RemoveAt(s, p) == [i \in 1..(Len(s) - 1) |-> IF i < p THEN s[i] ELSE s[i + 1]]

IdxSeq(n) == [i \in 1..n |-> i]

RECURSIVE SumOver(_, _)
SumOver(S, f) ==
    IF S = {} THEN 0
    ELSE LET x == CHOOSE y \in S : TRUE IN f[x] + SumOver(S \ {x}, f)

(***************************************************************************)
(* Trace events.  detail "" stands for a missing args.detail (both are     *)
(* falsy in the filter of the begin events).                               *)
(***************************************************************************)
Files == {"a.h", "b.h"}
NoDetail == ""
Ids == {1, 2}
Timestamps == 0..MaxTs

SourceBegins ==
    [cat : {"Source"}, ph : {"b"}, pid : {1}, tid : {1}, id : Ids,
     ts : Timestamps, detail : Files]

SourceEnds ==
    [cat : {"Source"}, ph : {"e"}, pid : {1}, tid : {1}, id : Ids,
     ts : Timestamps, detail : {NoDetail}]

\* a begin without detail, and an event of another category
OtherEvents ==
    { [cat |-> "Source", ph |-> "b", pid |-> 1, tid |-> 1, id |-> 1, ts |-> 0,
       detail |-> NoDetail],
      [cat |-> "Parse", ph |-> "b", pid |-> 1, tid |-> 1, id |-> 1, ts |-> 0,
       detail |-> "a.h"] }

EventValues == SourceBegins \cup SourceEnds \cup OtherEvents

(***************************************************************************)
(* The profiler tables as convertToProfiler creates them, and the empty    *)
(* history of table requests.                                              *)
(***************************************************************************)
NullStack == -1      \* prefix null, currentStack null

compilationCategory == 1

headerSubcategory == 1

EmptyTables ==
    [stringTable |-> <<"">>,
     stringMap |-> [k \in {""} |-> 0],
     funcTable |-> [name |-> <<>>, fileName |-> <<>>, resource |-> <<>>, length |-> 0],
     funcCache |-> <<>>,
     frameTable |-> [func |-> <<>>, category |-> <<>>, subcategory |-> <<>>, length |-> 0],
     frameCache |-> <<>>,
     stackTable |-> [frame |-> <<>>, prefix |-> <<>>, length |-> 0],
     stackCache |-> <<>>]

NoCalls == [n |-> 0, first |-> <<>>, last |-> <<>>]

EmptySamples == [stack |-> <<>>, time |-> <<>>, weight |-> <<>>, length |-> 0]

\* main has not run
IdleMain ==
    /\ mode = "single"
    /\ jsonFiles = <<>>
    /\ fi = 0
    /\ allSourceMarkers = <<>>
    /\ timeOffset = 0
    /\ ui = 0
    /\ samples = EmptySamples
    /\ mi = 0

EmptyOutput ==
    [names |-> <<>>, buildTimes |-> <<>>, files |-> <<>>, fileIds |-> <<>>,
     startTimes |-> <<>>, durations |-> <<>>, parentFileIds |-> <<>>]

\* the dashboard's main has not run
IdleDash ==
    /\ compilationUnitsData = <<>>
    /\ fileUsageCount = <<>>
    /\ output = EmptyOutput

\* no run over several units
IdleUnits ==
    /\ traces = <<>>
    /\ unitResults = <<>>

(***************************************************************************)
(* extractSourceMarkers, first half: matching begin and end events.        *)
(***************************************************************************)
\* `${e.pid}-${e.tid}-${e.id}`
KeyNoId(e) == ToString(e.pid) \o "-" \o ToString(e.tid)
Key(e) == ToString(e.pid) \o "-" \o ToString(e.tid) \o "-" \o ToString(e.id)

IsSource(e) == e.cat = "Source"

IsBegin(e) == IsSource(e) /\ e.ph = "b" /\ e.detail # NoDetail

IsEnd(e) == IsSource(e) /\ e.ph = "e"

\* the filtered arrays, as indices into the event array (the event objects)
BeginEvents(evs) == SelectSeq(IdxSeq(Len(evs)), LAMBDA i : IsBegin(evs[i]))

EndEvents(evs) == SelectSeq(IdxSeq(Len(evs)), LAMBDA i : IsEnd(evs[i]))

\* the loop that indexes the end events by key, each pool in array order
BuildEndMap(evs) ==
    LET ends == EndEvents(evs)
        keys == {Key(evs[ends[j]]) : j \in DOMAIN ends}
    IN [k \in keys |-> SelectSeq(ends, LAMBDA i : Key(evs[i]) = k)]

EndCandidates(map, key) == IF key \in DOMAIN map THEN map[key] ELSE <<>>

\* endCandidates.find(e => e.ts > beginEvent.ts): position of the first one, 0 if none
FindMatchingEndAny(evs, cands, ts) == IF Len(cands) > 0 THEN 1 ELSE 0
FindMatchingEnd(evs, cands, ts) ==
    LET hits == {p \in DOMAIN cands : evs[cands[p]].ts > ts}
    IN IF hits = {} THEN 0 ELSE CHOOSE p \in hits : \A q \in hits : p <= q

MakeInterval(b, e) ==
    [file |-> b.detail, startTime |-> b.ts, endTime |-> e.ts, duration |-> e.ts - b.ts]

TypeOK ==
    /\ pc \in {"index", "match", "matched", "hierarchy", "done", "tables", "main", "merge",
             "convert", "samples", "crashed", "process", "encode", "written", "units"}
    /\ Len(events) <= MaxEvents
    /\ \A i \in DOMAIN events : events[i] \in EventValues
    /\ bi \in 0..Len(events)

InitMatch ==
    /\ pc = "index"
    /\ events \in SeqsUpTo(EventValues, MaxEvents)
    /\ endMap = <<>>
    /\ bi = 0
    /\ intervals = <<>>
    /\ tool = "profiler"
    /\ hi = 0
    /\ stack = <<>>
    /\ sourceMarkers = <<>>
    /\ result = <<>>
    /\ tables = EmptyTables
    /\ calls = NoCalls
    /\ IdleMain
    /\ IdleDash
    /\ IdleUnits

IndexEnds ==
    /\ pc = "index"
    /\ endMap' = BuildEndMap(events)
    /\ pc' = "match"
    /\ UNCHANGED <<dashVars, unitVars, events, bi, intervals, hierVars, tableVars, mainVars>>

MatchBegin ==
    /\ pc = "match"
    /\ bi < Len(BeginEvents(events))
    /\ LET b == events[BeginEvents(events)[bi + 1]]
           key == Key(b)
           cands == EndCandidates(endMap, key)
           p == FindMatchingEnd(events, cands, b.ts)
       IN IF p # 0
          THEN /\ intervals' = Append(intervals, MakeInterval(b, events[cands[p]]))
               /\ endMap' = [endMap EXCEPT ![key] = RemoveAt(cands, p)]
          ELSE UNCHANGED <<intervals, endMap>>
    /\ bi' = bi + 1
    /\ UNCHANGED <<dashVars, unitVars, pc, events, hierVars, tableVars, mainVars>>

MatchDone ==
    /\ pc = "match"
    /\ bi = Len(BeginEvents(events))
    /\ pc' = "matched"
    /\ UNCHANGED <<dashVars, unitVars,
                   events, endMap, bi, intervals, hierVars, tableVars, mainVars>>

NextMatch == IndexEnds \/ MatchBegin \/ MatchDone

SpecMatch == InitMatch /\ [][NextMatch]_vars


(***************************************************************************)
(* C1.  Matching correctness.  When every (pid, tid, id) key is used by    *)
(* exactly one begin and one end and each end is later than its begin, the *)
(* matcher emits exactly one interval per pair, built from that pair; the  *)
(* bag of intervals depends on the set of events only, not on their order  *)
(* in the array.                                                           *)
(***************************************************************************)
SameKey(a, b) == a.pid = b.pid /\ a.tid = b.tid /\ a.id = b.id

BeginsOf(evs) == {i \in DOMAIN evs : evs[i].ph = "b"}

EndsOf(evs) == {i \in DOMAIN evs : evs[i].ph = "e"}

PairedUniquely(evs) ==
    /\ \A i \in DOMAIN evs :
        /\ IsSource(evs[i])
        /\ evs[i].ph = "b" => evs[i].detail # NoDetail
        /\ Cardinality({j \in BeginsOf(evs) : SameKey(evs[i], evs[j])}) = 1
        /\ Cardinality({j \in EndsOf(evs) : SameKey(evs[i], evs[j])}) = 1
    /\ \A i \in BeginsOf(evs) : \A j \in EndsOf(evs) :
        SameKey(evs[i], evs[j]) => evs[j].ts > evs[i].ts

\* the interval of the pair that begin event i opens
PairInterval(evs, i) ==
    LET j == CHOOSE e \in EndsOf(evs) : SameKey(evs[i], evs[e])
    IN [file |-> evs[i].detail, startTime |-> evs[i].ts, endTime |-> evs[j].ts,
        duration |-> evs[j].ts - evs[i].ts]

C1_MatchingCorrect ==
    (pc = "matched" /\ PairedUniquely(events)) =>
        /\ Len(intervals) = Cardinality(BeginsOf(events))
        /\ \A i \in BeginsOf(events) :
            LET v == PairInterval(events, i)
            IN Cardinality({p \in DOMAIN intervals : intervals[p] = v}) =
               Cardinality({k \in BeginsOf(events) : PairInterval(events, k) = v})

\* two pairs, the first event of the array being the end of the second interval
C1_Witness ==
    /\ pc = "matched"
    /\ PairedUniquely(events)
    /\ Len(intervals) = 2
    /\ intervals[1] # intervals[2]
    /\ events[1].ph = "e"
    /\ events[1].ts = intervals[2].endTime

(***************************************************************************)
(* extractSourceMarkers, second half (profiler): the include stack and the *)
(* self time of every interval; buildIncludeHierarchy (dashboard): the     *)
(* nearest parent of every interval.  Intervals are objects: an interval   *)
(* is named by its index in the intervals array.                           *)
(***************************************************************************)
Null == "<null>"

\* the intervals the matcher can emit: any file, any start < end
Times == 0..MaxT

IntervalValues ==
    { [file |-> f, startTime |-> t[1], endTime |-> t[2], duration |-> t[2] - t[1]] :
        f \in Files, t \in {u \in Times \X Times : u[1] < u[2]} }

Contains(a, b) == a.startTime <= b.startTime /\ a.endTime >= b.endTime

\* Array.prototype.sort with the comparator key(a) - key(b): stable, ascending
InsertAfterEqual(s, x, key) ==
    LET k == Cardinality({p \in DOMAIN s : key[s[p]] <= key[x]})
    IN SubSeq(s, 1, k) \o <<x>> \o SubSeq(s, k + 1, Len(s))

RECURSIVE SortStable(_, _)
SortStable(s, key) ==
    IF s = <<>> THEN <<>>
    ELSE InsertAfterEqual(SortStable(SubSeq(s, 1, Len(s) - 1), key), s[Len(s)], key)

StartKey(ivs) == [j \in DOMAIN ivs |-> ivs[j].startTime]

\* the intervals that contain interval i, in array order
ContainersOf(ivs, i) ==
    SelectSeq(IdxSeq(Len(ivs)), LAMBDA j : j # i /\ Contains(ivs[j], ivs[i]))

\* the local stack after the sort and the push of the interval itself
StackOf(ivs, i) == Append(SortStable(ContainersOf(ivs, i), StartKey(ivs)), i)

\* the inner loop over middle: no third interval lies between interval i and other o
IsDirectAlways(ivs, i, o) == TRUE
IsDirect(ivs, i, o) ==
    ~ \E m \in DOMAIN ivs :
        /\ m # i /\ m # o
        /\ Contains(ivs[i], ivs[m])
        /\ Contains(ivs[m], ivs[o])

\* the loop over other that accumulates childrenTime, from index o on
RECURSIVE ChildrenTimeFrom(_, _, _)
ChildrenTimeFrom(ivs, i, o) ==
    IF o > Len(ivs) THEN 0
    ELSE (IF o # i /\ Contains(ivs[i], ivs[o]) /\ IsDirect(ivs, i, o)
          THEN ivs[o].duration ELSE 0) + ChildrenTimeFrom(ivs, i, o + 1)

MakeMarkerClamped(ivs, i) ==
    LET selfTime == ivs[i].duration - ChildrenTimeFrom(ivs, i, 1)
    IN [file |-> ivs[i].file,
        startTime |-> ivs[i].startTime,
        endTime |-> ivs[i].endTime,
        duration |-> IF selfTime < 0 THEN 0 ELSE selfTime,
        stack |-> [p \in DOMAIN StackOf(ivs, i) |-> ivs[StackOf(ivs, i)[p]].file]]
MakeMarker(ivs, i) ==
    [file |-> ivs[i].file,
     startTime |-> ivs[i].startTime,
     endTime |-> ivs[i].endTime,
     duration |-> ivs[i].duration - ChildrenTimeFrom(ivs, i, 1),
     stack |-> [p \in DOMAIN StackOf(ivs, i) |-> ivs[StackOf(ivs, i)[p]].file]]

\* the loop over other that keeps the first container of strictly smaller duration;
\* 0 stands for immediateParent = null, MaxTs + 1 for Infinity
LargerParent(ivs, i, o, best) == best = 0 \/ ivs[o].duration > ivs[best].duration
SmallerParent(ivs, i, o, best) == best = 0 \/ ivs[o].duration < ivs[best].duration

RECURSIVE ImmediateParentFrom(_, _, _, _)
ImmediateParentFrom(ivs, i, o, best) ==
    IF o > Len(ivs) THEN best
    ELSE ImmediateParentFrom(ivs, i, o + 1,
            IF o # i /\ Contains(ivs[o], ivs[i]) /\ SmallerParent(ivs, i, o, best)
            THEN o ELSE best)

MakeEntry(ivs, i) ==
    LET parent == ImmediateParentFrom(ivs, i, 1, 0)
    IN [file |-> ivs[i].file,
        startTime |-> ivs[i].startTime,
        endTime |-> ivs[i].endTime,
        duration |-> ivs[i].duration,
        parentFile |-> IF parent # 0 THEN ivs[parent].file ELSE Null]

\* the state after the matching loop: any list of intervals
InitHier ==
    /\ pc = "hierarchy"
    /\ events = <<>>
    /\ endMap = <<>>
    /\ bi = 0
    /\ intervals \in SeqsUpTo(IntervalValues, MaxIntervals)
    /\ tool \in {"profiler", "dashboard"}
    /\ hi = 0
    /\ stack = <<>>
    /\ sourceMarkers = <<>>
    /\ result = <<>>
    /\ tables = EmptyTables
    /\ calls = NoCalls
    /\ IdleMain
    /\ IdleDash
    /\ IdleUnits

BuildMarker ==
    /\ pc = "hierarchy"
    /\ tool = "profiler"
    /\ hi < Len(intervals)
    /\ stack' = StackOf(intervals, hi + 1)
    /\ sourceMarkers' = Append(sourceMarkers, MakeMarker(intervals, hi + 1))
    /\ hi' = hi + 1
    /\ UNCHANGED <<dashVars, unitVars, pc, matchVars, intervals, tool, result, tableVars, mainVars>>

BuildEntry ==
    /\ pc = "hierarchy"
    /\ tool = "dashboard"
    /\ hi < Len(intervals)
    /\ result' = Append(result, MakeEntry(intervals, hi + 1))
    /\ hi' = hi + 1
    /\ UNCHANGED <<dashVars, unitVars,
                   pc, matchVars, intervals, tool, stack, sourceMarkers, tableVars, mainVars>>

HierDone ==
    /\ pc = "hierarchy"
    /\ hi = Len(intervals)
    /\ pc' = "done"
    /\ UNCHANGED <<dashVars, unitVars, matchVars, intervals, hierVars, tableVars, mainVars>>

NextHier == BuildMarker \/ BuildEntry \/ HierDone

SpecHier == InitHier /\ [][NextHier]_vars

(***************************************************************************)
(* C2.  Self-time conservation.  In a unit whose intervals form a laminar  *)
(* family and which has exactly one root, the self-durations of all the    *)
(* markers sum to the duration of the root.                                *)
(***************************************************************************)
Disjoint(a, b) == a.endTime <= b.startTime \/ b.endTime <= a.startTime

Laminar(ivs) ==
    \A i \in DOMAIN ivs : \A j \in DOMAIN ivs :
        i # j => Disjoint(ivs[i], ivs[j]) \/ Contains(ivs[i], ivs[j]) \/ Contains(ivs[j], ivs[i])

Roots(ivs) ==
    {i \in DOMAIN ivs : ~ \E j \in DOMAIN ivs : j # i /\ Contains(ivs[j], ivs[i])}

SelfSum(ms) == SumOver(DOMAIN ms, [k \in DOMAIN ms |-> ms[k].duration])

C2_SelfTimeConservation ==
    (pc = "done" /\ tool = "profiler" /\ Laminar(intervals)
        /\ Cardinality(Roots(intervals)) = 1) =>
        \A r \in Roots(intervals) : SelfSum(sourceMarkers) = intervals[r].duration

(***************************************************************************)
(* C3.  The self-duration of a marker is the duration of its interval      *)
(* minus the durations of the direct children of that interval only.       *)
(***************************************************************************)
DirectChildren(ivs, i) ==
    {j \in DOMAIN ivs :
        /\ j # i
        /\ ivs[i].startTime <= ivs[j].startTime /\ ivs[i].endTime >= ivs[j].endTime
        /\ \A m \in DOMAIN ivs \ {i, j} :
            ~ (/\ ivs[i].startTime <= ivs[m].startTime /\ ivs[i].endTime >= ivs[m].endTime
               /\ ivs[m].startTime <= ivs[j].startTime /\ ivs[m].endTime >= ivs[j].endTime)}

Descendants(ivs, i) ==
    {j \in DOMAIN ivs : j # i /\ Contains(ivs[i], ivs[j])}

DurationSum(ivs, S) == SumOver(S, [k \in DOMAIN ivs |-> ivs[k].duration])

C3_SelfTimeDirectChildren ==
    (tool = "profiler" /\ pc \in {"hierarchy", "done"}) =>
        /\ Len(sourceMarkers) = hi
        /\ \A k \in DOMAIN sourceMarkers :
            sourceMarkers[k].duration =
                intervals[k].duration - DurationSum(intervals, DirectChildren(intervals, k))

\* an interval with a child and a grandchild: only the child is subtracted
C3_Witness ==
    /\ tool = "profiler" /\ pc = "done"
    /\ \E k \in DOMAIN sourceMarkers :
        /\ DirectChildren(intervals, k) # {}
        /\ Descendants(intervals, k) # DirectChildren(intervals, k)
        /\ sourceMarkers[k].duration > 0
        /\ sourceMarkers[k].duration # intervals[k].duration

(***************************************************************************)
(* C4.  Full ancestor chain.  The stack of an interval holds exactly the   *)
(* other intervals that contain it, then the interval itself, ordered from *)
(* the outermost to the innermost: every element contains all that follow. *)
(***************************************************************************)
C4_AncestorChain ==
    (tool = "profiler" /\ hi > 0) =>
        LET n == Len(stack) IN
        /\ n >= 1 /\ stack[n] = hi
        /\ {stack[p] : p \in 1..(n - 1)} =
               {j \in DOMAIN intervals : j # hi /\ Contains(intervals[j], intervals[hi])}
        /\ \A p \in 1..n : \A q \in 1..n : p # q => stack[p] # stack[q]
        /\ \A p \in 1..n : \A q \in 1..n :
               p < q => Contains(intervals[stack[p]], intervals[stack[q]])

(***************************************************************************)
(* C5.  Nearest parent.  Every entry keeps the file, start, end and        *)
(* duration of its interval, in input order; its parentFile is the file of *)
(* a container of minimal duration, and null exactly when no other         *)
(* interval contains it.                                                   *)
(***************************************************************************)
ContainerSet(ivs, i) ==
    {j \in DOMAIN ivs :
        j # i /\ ivs[j].startTime <= ivs[i].startTime /\ ivs[j].endTime >= ivs[i].endTime}

C5_NearestParent ==
    (tool = "dashboard" /\ pc \in {"hierarchy", "done"}) =>
        /\ Len(result) = hi
        /\ pc = "done" => Len(result) = Len(intervals)
        /\ \A k \in DOMAIN result :
            /\ result[k].file = intervals[k].file
            /\ result[k].startTime = intervals[k].startTime
            /\ result[k].endTime = intervals[k].endTime
            /\ result[k].duration = intervals[k].duration
            /\ (result[k].parentFile = Null) <=> (ContainerSet(intervals, k) = {})
            /\ ContainerSet(intervals, k) # {} =>
                \E j \in ContainerSet(intervals, k) :
                    /\ result[k].parentFile = intervals[j].file
                    /\ \A m \in ContainerSet(intervals, k) :
                        intervals[j].duration <= intervals[m].duration

\* an interval with two containers of different files and durations, the larger one first
C5_Witness ==
    /\ tool = "dashboard" /\ pc = "done"
    /\ \E k \in DOMAIN result : \E j \in ContainerSet(intervals, k) :
        \E m \in ContainerSet(intervals, k) :
            /\ m < j
            /\ intervals[j].duration < intervals[m].duration
            /\ intervals[j].file # intervals[m].file
            /\ result[k].parentFile = intervals[j].file

(***************************************************************************)
(* convertToProfiler: the deduplicated tables.  Table indices are those of *)
(* the code (from 0); row i of a table is element i + 1 of its columns.    *)
(* A cache (a Map) is a function from its keys to indices.                 *)
(***************************************************************************)
\* every operation returns the tables after the call and the index it answers
AddStringNoCache(t, str) ==
    [t |-> [t EXCEPT !.stringTable = Append(@, str),
                      !.stringMap = (str :> Len(t.stringTable)) @@ @],
     ret |-> Len(t.stringTable)]
AddString(t, str) ==
    IF str \in DOMAIN t.stringMap
    THEN [t |-> t, ret |-> t.stringMap[str]]
    ELSE LET index == Len(t.stringTable)
         IN [t |-> [t EXCEPT !.stringTable = Append(@, str),
                              !.stringMap = (str :> index) @@ @],
             ret |-> index]

GetOrCreateFunc(t, name) ==
    IF name \in DOMAIN t.funcCache
    THEN [t |-> t, ret |-> t.funcCache[name]]
    ELSE LET funcIndex == t.funcTable.length
             s == AddString(t, name)
         IN [t |-> [s.t EXCEPT !.funcTable =
                                  [name |-> Append(@.name, s.ret),
                                   fileName |-> Append(@.fileName, s.ret),
                                   resource |-> Append(@.resource, -1),
                                   length |-> @.length + 1],
                                !.funcCache = (name :> funcIndex) @@ @],
             ret |-> funcIndex]

GetOrCreateFrame(t, name) ==
    IF name \in DOMAIN t.frameCache
    THEN [t |-> t, ret |-> t.frameCache[name]]
    ELSE LET f == GetOrCreateFunc(t, name)
             frameIndex == f.t.frameTable.length
         IN [t |-> [f.t EXCEPT !.frameTable =
                                  [func |-> Append(@.func, f.ret),
                                   category |-> Append(@.category, compilationCategory),
                                   subcategory |-> Append(@.subcategory, headerSubcategory),
                                   length |-> @.length + 1],
                                !.frameCache = (name :> frameIndex) @@ @],
             ret |-> frameIndex]

\* `${frameIndex}-${prefixStack !== null ? prefixStack : 'null'}`
StackKeyNoPrefix(frameIndex, prefixStack) == ToString(frameIndex)
StackKey(frameIndex, prefixStack) ==
    ToString(frameIndex) \o "-" \o
        (IF prefixStack # NullStack THEN ToString(prefixStack) ELSE "null")

GetOrCreateStackNoLength(t, frameIndex, prefixStack) ==
    LET key == StackKey(frameIndex, prefixStack)
    IN IF key \in DOMAIN t.stackCache
       THEN [t |-> t, ret |-> t.stackCache[key]]
       ELSE LET stackIndex == t.stackTable.length
            IN [t |-> [t EXCEPT !.stackTable =
                                    [frame |-> Append(@.frame, frameIndex),
                                     prefix |-> Append(@.prefix, prefixStack),
                                     length |-> @.length],
                                 !.stackCache = (key :> stackIndex) @@ @],
                ret |-> stackIndex]
GetOrCreateStack(t, frameIndex, prefixStack) ==
    LET key == StackKey(frameIndex, prefixStack)
    IN IF key \in DOMAIN t.stackCache
       THEN [t |-> t, ret |-> t.stackCache[key]]
       ELSE LET stackIndex == t.stackTable.length
            IN [t |-> [t EXCEPT !.stackTable =
                                    [frame |-> Append(@.frame, frameIndex),
                                     prefix |-> Append(@.prefix, prefixStack),
                                     length |-> @.length + 1],
                                 !.stackCache = (key :> stackIndex) @@ @],
                ret |-> stackIndex]

(***************************************************************************)
(* The table operations called in any order with any arguments.  calls     *)
(* records, per kind of table and key, the index the first request got,    *)
(* and the last call with the sizes of the tables before it.               *)
(***************************************************************************)
Names == Files \cup {""}

FrameArgs == 0..1

PrefixArgs == {NullStack, 0, 1}

Sizes(t) ==
    [str |-> Len(t.stringTable), func |-> t.funcTable.length,
     frame |-> t.frameTable.length, stk |-> t.stackTable.length]

\* the requests a call makes, itself and the nested ones, as <<kind, key>>
Requests(t, kind, key) ==
    CASE kind = "string" -> {<<"string", key>>}
      [] kind = "func" ->
            {<<"func", key>>} \cup
            (IF key \in DOMAIN t.funcCache THEN {} ELSE {<<"string", key>>})
      [] kind = "frame" ->
            {<<"frame", key>>} \cup
            (IF key \in DOMAIN t.frameCache THEN {}
             ELSE {<<"func", key>>} \cup
                  (IF key \in DOMAIN t.funcCache THEN {} ELSE {<<"string", key>>}))
      [] OTHER -> {<<"stack", key>>}

\* the index a nested request of the call got: read back from the cache it filled
Answer(t, req) ==
    CASE req[1] = "string" -> t.stringMap[req[2]]
      [] req[1] = "func" -> t.funcCache[req[2]]
      [] req[1] = "frame" -> t.frameCache[req[2]]
      [] OTHER -> t.stackCache[StackKey(req[2][1], req[2][2])]

Record(t, kind, key, r) ==
    LET reqs == Requests(t, kind, key)
        new == {q \in reqs : q \notin DOMAIN calls.first}
    IN [n |-> calls.n + 1,
        first |-> [q \in new |-> Answer(r.t, q)] @@ calls.first,
        last |-> <<[kind |-> kind, key |-> key, ret |-> r.ret, before |-> Sizes(t),
                    known |-> <<kind, key>> \in DOMAIN calls.first]>>]

InitTables ==
    /\ pc = "tables"
    /\ events = <<>>
    /\ endMap = <<>>
    /\ bi = 0
    /\ intervals = <<>>
    /\ tool = "profiler"
    /\ hi = 0
    /\ stack = <<>>
    /\ sourceMarkers = <<>>
    /\ result = <<>>
    /\ tables = EmptyTables
    /\ calls = NoCalls
    /\ IdleMain
    /\ IdleDash
    /\ IdleUnits

CallAddString ==
    /\ pc = "tables" /\ calls.n < MaxCalls
    /\ \E str \in Names :
        LET r == AddString(tables, str)
        IN /\ tables' = r.t
           /\ calls' = Record(tables, "string", str, r)
    /\ UNCHANGED <<dashVars, unitVars, pc, matchVars, intervals, hierVars, mainVars>>

CallGetOrCreateFunc ==
    /\ pc = "tables" /\ calls.n < MaxCalls
    /\ \E name \in Names :
        LET r == GetOrCreateFunc(tables, name)
        IN /\ tables' = r.t
           /\ calls' = Record(tables, "func", name, r)
    /\ UNCHANGED <<dashVars, unitVars, pc, matchVars, intervals, hierVars, mainVars>>

CallGetOrCreateFrame ==
    /\ pc = "tables" /\ calls.n < MaxCalls
    /\ \E name \in Names :
        LET r == GetOrCreateFrame(tables, name)
        IN /\ tables' = r.t
           /\ calls' = Record(tables, "frame", name, r)
    /\ UNCHANGED <<dashVars, unitVars, pc, matchVars, intervals, hierVars, mainVars>>

CallGetOrCreateStack ==
    /\ pc = "tables" /\ calls.n < MaxCalls
    /\ \E frameIndex \in FrameArgs, prefixStack \in PrefixArgs :
        LET r == GetOrCreateStack(tables, frameIndex, prefixStack)
        IN /\ tables' = r.t
           /\ calls' = Record(tables, "stack", <<frameIndex, prefixStack>>, r)
    /\ UNCHANGED <<dashVars, unitVars, pc, matchVars, intervals, hierVars, mainVars>>

NextTables ==
    CallAddString \/ CallGetOrCreateFunc \/ CallGetOrCreateFrame \/ CallGetOrCreateStack

SpecTables == InitTables /\ [][NextTables]_vars

(***************************************************************************)
(* C8.  Table identity and deduplication.  A request for a key requested   *)
(* before answers the index of the first request and adds no row; no table *)
(* holds two rows for one key; the function, frame and stack tables have   *)
(* one row per distinct key requested so far, and the string table has one *)
(* row per distinct key requested so far.                                  *)
(***************************************************************************)
Injective(s) == \A i \in DOMAIN s : \A j \in DOMAIN s : s[i] = s[j] => i = j

Requested(kind) == {q \in DOMAIN calls.first : q[1] = kind}

SameIndexNoRow ==
    \A c \in Range(calls.last) :
        /\ c.ret = calls.first[<<c.kind, c.key>>]
        /\ c.known => Sizes(tables) = c.before

NoDuplicateRows ==
    /\ Injective(tables.stringTable)
    /\ Injective(tables.funcTable.name)
    /\ Injective(tables.frameTable.func)
    /\ Injective([i \in DOMAIN tables.stackTable.frame |->
                    <<tables.stackTable.frame[i], tables.stackTable.prefix[i]>>])

RowPerKey ==
    /\ tables.funcTable.length = Cardinality(Requested("func"))
    /\ tables.frameTable.length = Cardinality(Requested("frame"))
    /\ tables.stackTable.length = Cardinality(Requested("stack"))
    /\ Len(tables.funcTable.name) = tables.funcTable.length
    /\ Len(tables.frameTable.func) = tables.frameTable.length
    /\ Len(tables.stackTable.frame) = tables.stackTable.length

\* the claim as stated: also the string table has exactly one row per requested key
C8_TableDedupOriginal ==
    /\ SameIndexNoRow
    /\ NoDuplicateRows
    /\ RowPerKey
    /\ Len(tables.stringTable) = Cardinality(Requested("string"))

\* C8 as amended: the string table holds the empty string at index 0 from the start,
\* so it has one row more than the distinct non-empty strings requested
C8_TableDedup ==
    /\ SameIndexNoRow
    /\ NoDuplicateRows
    /\ RowPerKey
    /\ Len(tables.stringTable) = 1 + Cardinality(Requested("string") \ {<<"string", "">>})
    /\ tables.stringTable[1] = ""

\* a frame and a stack requested twice, with two rows in the stack table
C8_Witness ==
    /\ calls.n = MaxCalls
    /\ \E c \in Range(calls.last) : c.known /\ c.kind = "stack" /\ c.ret = 1
    /\ tables.stackTable.length = 2
    /\ tables.frameTable.length = 1
    /\ Len(tables.stringTable) = 2

(***************************************************************************)
(* main, mergeIntoProfile and convertToProfiler of the profiler.  An input *)
(* file is given by the base name of its path, by whether reading and      *)
(* parsing it succeeds, and by the intervals the matching loop yields for  *)
(* its events.                                                             *)
(***************************************************************************)
NoUnit == ""         \* marker.compilationUnit undefined (falsy)

CUNames == {"u", "a.h"}

UnitIntervals ==
    { [file |-> f, startTime |-> t[1], endTime |-> t[2], duration |-> t[2] - t[1]] :
        f \in Files, t \in {u \in Timestamps \X Timestamps : u[1] < u[2]} }

FileValues ==
    { [name |-> n, parses |-> TRUE, intervals |-> ivs] :
        n \in CUNames, ivs \in SeqsUpTo(UnitIntervals, MaxPerUnit) \ {<<>>} }
    \cup { [name |-> "u", parses |-> TRUE, intervals |-> <<>>],
           [name |-> "u", parses |-> FALSE, intervals |-> <<>>] }

\* extractSourceMarkers on the intervals of a file
ExtractSourceMarkers(ivs) == [k \in DOMAIN ivs |-> MakeMarker(ivs, k)]

\* marker.compilationUnit = compilationUnit
WithUnit(marker, compilationUnit) ==
    [file |-> marker.file, startTime |-> marker.startTime, endTime |-> marker.endTime,
     duration |-> marker.duration, stack |-> marker.stack,
     compilationUnit |-> compilationUnit]

\* the loop that finds the maximal endTime of a unit, starting from 0
LastEndTime(markers) == markers[Len(markers)].endTime
RECURSIVE MaxEndTime(_)
MaxEndTime(markers) ==
    IF markers = <<>> THEN 0
    ELSE LET rest == MaxEndTime(SubSeq(markers, 1, Len(markers) - 1))
             last == markers[Len(markers)].endTime
         IN IF last > rest THEN last ELSE rest

ShiftStartOnly(marker, offset) == [marker EXCEPT !.startTime = @ + offset]
ShiftMarker(marker, offset) ==
    [marker EXCEPT !.startTime = @ + offset, !.endTime = @ + offset]

RECURSIVE ConcatMarkers(_)
ConcatMarkers(units) ==
    IF units = <<>> THEN <<>>
    ELSE ConcatMarkers(SubSeq(units, 1, Len(units) - 1)) \o units[Len(units)].markers

\* x / 1000, kept as the exact quotient
DivMs(x) == <<x, 1000>>

EndKey(markers) == [k \in DOMAIN markers |-> markers[k].endTime]

\* sourceMarkers.sort((a, b) => a.endTime - b.endTime)
SortByEndTime(markers) ==
    LET order == SortStable(IdxSeq(Len(markers)), EndKey(markers))
    IN [k \in DOMAIN markers |-> markers[order[k]]]

\* the loop over includeStack from position p on: one frame and one stack node per file
RECURSIVE BuildStack(_, _, _, _)
BuildStack(t, includeStack, p, currentStack) ==
    IF p > Len(includeStack) THEN [t |-> t, ret |-> currentStack]
    ELSE LET f == GetOrCreateFrame(t, includeStack[p])
             st == GetOrCreateStack(f.t, f.ret, currentStack)
         IN BuildStack(st.t, includeStack, p + 1, st.ret)

\* the root frame of the compilation unit, when the marker has one
RootStack(t, marker) ==
    IF marker.compilationUnit # NoUnit
    THEN LET f == GetOrCreateFrame(t, marker.compilationUnit)
         IN GetOrCreateStack(f.t, f.ret, NullStack)
    ELSE [t |-> t, ret |-> NullStack]

SampleTotal(smp, marker, currentStack) ==
    [stack |-> Append(smp.stack, currentStack),
     time |-> Append(smp.time, DivMs(marker.endTime)),
     weight |-> Append(smp.weight, DivMs(marker.endTime - marker.startTime)),
     length |-> smp.length + 1]
PushSample(smp, marker, currentStack) ==
    [stack |-> Append(smp.stack, currentStack),
     time |-> Append(smp.time, DivMs(marker.endTime)),
     weight |-> Append(smp.weight, DivMs(marker.duration)),
     length |-> smp.length + 1]

\* the files of a run that yield intervals
Yields(f) == f.parses /\ f.intervals # <<>>

InitProfile ==
    /\ pc = "main"
    /\ events = <<>>
    /\ endMap = <<>>
    /\ bi = 0
    /\ intervals = <<>>
    /\ tool = "profiler"
    /\ hi = 0
    /\ stack = <<>>
    /\ sourceMarkers = <<>>
    /\ result = <<>>
    /\ tables = EmptyTables
    /\ calls = NoCalls
    /\ mode \in {"directory", "single"}
    /\ jsonFiles \in SeqsUpTo(FileValues, MaxFiles) \ {<<>>}
    /\ mode = "single" => Len(jsonFiles) = 1
    /\ Cardinality({j \in DOMAIN jsonFiles : Yields(jsonFiles[j])}) <= MaxUnits
    /\ fi = 0
    /\ allSourceMarkers = <<>>
    /\ timeOffset = 0
    /\ ui = 0
    /\ samples = EmptySamples
    /\ mi = 0
    /\ IdleDash
    /\ IdleUnits

\* directory mode: one iteration of the loop over jsonFiles, with its try/catch
ReadFile ==
    /\ pc = "main" /\ mode = "directory"
    /\ fi < Len(jsonFiles)
    /\ LET f == jsonFiles[fi + 1]
           markers == ExtractSourceMarkers(f.intervals)
       IN allSourceMarkers' =
            IF f.parses /\ Len(markers) > 0
            THEN Append(allSourceMarkers,
                        [file |-> f.name,
                         markers |-> [k \in DOMAIN markers |-> WithUnit(markers[k], f.name)]])
            ELSE allSourceMarkers
    /\ fi' = fi + 1
    /\ UNCHANGED <<dashVars, unitVars,
                   pc, matchVars, intervals, hierVars, tableVars, mode, jsonFiles,
                   timeOffset, ui, samples, mi>>

\* directory mode: the call of mergeIntoProfile
StartMerge ==
    /\ pc = "main" /\ mode = "directory"
    /\ fi = Len(jsonFiles)
    /\ pc' = "merge"
    /\ timeOffset' = 0
    /\ UNCHANGED <<dashVars, unitVars,
                   matchVars, intervals, hierVars, tableVars, mode, jsonFiles, fi,
                   allSourceMarkers, ui, samples, mi>>

\* one iteration of the loop over allSourceMarkers
MergeUnit ==
    /\ pc = "merge"
    /\ ui < Len(allSourceMarkers)
    /\ LET markers == allSourceMarkers[ui + 1].markers
       IN IF Len(markers) = 0
          THEN UNCHANGED <<allSourceMarkers, timeOffset>>
          ELSE /\ allSourceMarkers' =
                    [allSourceMarkers EXCEPT ![ui + 1].markers =
                        [k \in DOMAIN markers |-> ShiftMarker(markers[k], timeOffset)]]
               /\ timeOffset' = timeOffset + MaxEndTime(markers)
    /\ ui' = ui + 1
    /\ UNCHANGED <<dashVars, unitVars,
                   pc, matchVars, intervals, hierVars, tableVars, mode, jsonFiles, fi,
                   samples, mi>>

\* allMarkers, handed to convertToProfiler as its sourceMarkers
CombineMarkers ==
    /\ pc = "merge"
    /\ ui = Len(allSourceMarkers)
    /\ sourceMarkers' = ConcatMarkers(allSourceMarkers)
    /\ pc' = "convert"
    /\ UNCHANGED <<dashVars, unitVars,
                   matchVars, intervals, tool, hi, stack, result, tableVars, mainVars>>

\* single file mode: an exception of JSON.parse is not caught
ReadSingle ==
    /\ pc = "main" /\ mode = "single"
    /\ LET f == jsonFiles[1]
           markers == ExtractSourceMarkers(f.intervals)
       IN IF f.parses
          THEN /\ sourceMarkers' = [k \in DOMAIN markers |-> WithUnit(markers[k], NoUnit)]
               /\ pc' = "convert"
          ELSE /\ pc' = "crashed"
               /\ UNCHANGED sourceMarkers
    /\ fi' = 1
    /\ UNCHANGED <<dashVars, unitVars,
                   matchVars, intervals, tool, hi, stack, result, tableVars, mode,
                   jsonFiles, allSourceMarkers, timeOffset, ui, samples, mi>>

\* convertToProfiler up to its loop: the sort and the empty tables
ConvertStart ==
    /\ pc = "convert"
    /\ sourceMarkers' = SortByEndTime(sourceMarkers)
    /\ tables' = EmptyTables
    /\ samples' = EmptySamples
    /\ mi' = 0
    /\ pc' = "samples"
    /\ UNCHANGED <<dashVars, unitVars,
                   matchVars, intervals, tool, hi, stack, result, calls, mode, jsonFiles,
                   fi, allSourceMarkers, timeOffset, ui>>

\* one iteration of the loop over sourceMarkers
AddSample ==
    /\ pc = "samples"
    /\ mi < Len(sourceMarkers)
    /\ LET marker == sourceMarkers[mi + 1]
           root == RootStack(tables, marker)
           r == BuildStack(root.t, marker.stack, 1, root.ret)
       IN /\ tables' = r.t
          /\ samples' = PushSample(samples, marker, r.ret)
    /\ mi' = mi + 1
    /\ UNCHANGED <<dashVars, unitVars,
                   pc, matchVars, intervals, hierVars, calls, mode, jsonFiles, fi,
                   allSourceMarkers, timeOffset, ui>>

ConvertDone ==
    /\ pc = "samples"
    /\ mi = Len(sourceMarkers)
    /\ pc' = "done"
    /\ UNCHANGED <<dashVars, unitVars, matchVars, intervals, hierVars, tableVars, mainVars>>

NextProfile ==
    \/ ReadFile \/ StartMerge \/ MergeUnit \/ CombineMarkers
    \/ ReadSingle \/ ConvertStart \/ AddSample \/ ConvertDone

SpecProfile == InitProfile /\ [][NextProfile]_vars

(***************************************************************************)
(* C6.  Merger.  Units are laid out in input order: every interval of a    *)
(* unit has start and end raised by the running offset, which is the sum   *)
(* of the raw maximal end timestamps of the preceding units that have      *)
(* intervals; files without intervals neither shift nor advance it; the    *)
(* merged list is the concatenation of the units' lists in input order.    *)
(***************************************************************************)
Kept == SelectSeq(IdxSeq(Len(jsonFiles)), LAMBDA j : Yields(jsonFiles[j]))

RawMaxEnd(ivs) ==
    CHOOSE x \in {ivs[k].endTime : k \in DOMAIN ivs} :
        \A k \in DOMAIN ivs : ivs[k].endTime <= x

\* the sum of the raw maximal ends of the files before file j that have intervals
ExpectedOffset(j) ==
    SumOver({i \in 1..(j - 1) : Yields(jsonFiles[i])},
            [i \in DOMAIN jsonFiles |->
                IF Yields(jsonFiles[i]) THEN RawMaxEnd(jsonFiles[i].intervals) ELSE 0])

\* the position in the merged list of marker k of unit u
MergedPos(u, k) ==
    SumOver(1..(u - 1), [v \in DOMAIN allSourceMarkers |-> Len(allSourceMarkers[v].markers)]) + k

C7_NoCollision ==
    (mode = "directory" /\ pc \in {"convert", "samples", "done"}) =>
        \A u \in DOMAIN allSourceMarkers : \A v \in DOMAIN allSourceMarkers :
            u < v =>
                \A a \in Range(allSourceMarkers[u].markers) :
                    \A b \in Range(allSourceMarkers[v].markers) :
                        b.startTime >= a.endTime

\* the first unit's last interval is not its longest; the second unit starts right after
C7_Witness ==
    /\ mode = "directory" /\ pc = "done"
    /\ Len(allSourceMarkers) = 2
    /\ LET a == allSourceMarkers[1].markers
           b == allSourceMarkers[2].markers
       IN /\ Len(a) = 2 /\ a[1].endTime > a[2].endTime
          /\ b[1].startTime = a[1].endTime

(***************************************************************************)
(* C9.  One sample per interval: the columns of samples have one entry per *)
(* marker handled; the sample of an interval has time = its (shifted) end  *)
(* timestamp / 1000 and weight = its self-duration / 1000.                 *)
(***************************************************************************)
\* the intervals of the run, as <<file index, position>>
Items ==
    {it \in (DOMAIN jsonFiles) \X (1..MaxPerUnit) :
        jsonFiles[it[1]].parses /\ it[2] <= Len(jsonFiles[it[1]].intervals)}

ExpectedSample(it) ==
    LET raw == jsonFiles[it[1]].intervals
        off == IF mode = "directory" THEN ExpectedOffset(it[1]) ELSE 0
        self == raw[it[2]].duration - DurationSum(raw, DirectChildren(raw, it[2]))
    IN << <<raw[it[2]].endTime + off, 1000>>, <<self, 1000>> >>

SampleAt(k) == <<samples.time[k], samples.weight[k]>>

Reverse(s) == [i \in 1..Len(s) |-> s[Len(s) + 1 - i]]

NameOfStack(t, s) ==
    t.stringTable[t.funcTable.name[t.frameTable.func[t.stackTable.frame[s + 1] + 1] + 1] + 1]

RECURSIVE WalkStack(_, _, _)
WalkStack(t, s, fuel) ==
    IF s = NullStack THEN <<>>
    ELSE IF fuel = 0 THEN <<"<cycle>">>
    ELSE <<NameOfStack(t, s)>> \o WalkStack(t, t.stackTable.prefix[s + 1], fuel - 1)

Chain(marker) ==
    IF mode = "directory" THEN <<marker.compilationUnit>> \o marker.stack
    ELSE marker.stack

C10_StackRoundTrip ==
    /\ (mode = "directory") =>
        \A u \in DOMAIN allSourceMarkers : \A k \in DOMAIN allSourceMarkers[u].markers :
            /\ allSourceMarkers[u].markers[k].compilationUnit = jsonFiles[Kept[u]].name
            /\ allSourceMarkers[u].markers[k].stack =
                   MakeMarker(jsonFiles[Kept[u]].intervals, k).stack
    /\ (pc \in {"samples", "done"}) =>
        /\ \A k \in 1..mi :
            WalkStack(tables, samples.stack[k], tables.stackTable.length) =
                Reverse(Chain(sourceMarkers[k]))
        /\ \A k1 \in 1..mi : \A k2 \in 1..mi :
            (samples.stack[k1] = samples.stack[k2]) <=>
                (Chain(sourceMarkers[k1]) = Chain(sourceMarkers[k2]))

\* two samples of different units share a stack of depth 3; a third ends in the same
\* file under another prefix
C10_Witness ==
    /\ mode = "directory" /\ pc = "done"
    /\ \E k1 \in 1..mi : \E k2 \in 1..mi : \E k3 \in 1..mi :
        /\ k1 # k2
        /\ samples.stack[k1] = samples.stack[k2]
        /\ Len(Chain(sourceMarkers[k1])) = 3
        /\ sourceMarkers[k3].file = sourceMarkers[k1].file
        /\ samples.stack[k3] # samples.stack[k1]

\* single file mode: no root frame for a unit
C10_WitnessSingle ==
    /\ mode = "single" /\ pc = "done"
    /\ samples.length = 2
    /\ \E k \in 1..mi : tables.stackTable.prefix[samples.stack[k] + 1] = NullStack
                         /\ Len(sourceMarkers[k].stack) = 1

(***************************************************************************)
(* clang-trace-to-dashboard.js: main.  An input file is given by the base  *)
(* name of its path, by whether reading and parsing it succeeds, by the    *)
(* intervals the matching loop yields for its events and by the duration   *)
(* of its ExecuteCompiler event.  Timestamps are microseconds.             *)
(***************************************************************************)
DashTimes == {0, 600, 1500}

DashIntervals ==
    { [file |-> f, startTime |-> t[1], endTime |-> t[2], duration |-> t[2] - t[1]] :
        f \in Files, t \in {u \in DashTimes \X DashTimes : u[1] < u[2]} }

\* path.basename(jsonFile, '.json') and extractExecuteCompilerDuration(traceData)
DashUnits == { [name |-> "u", buildTime |-> 0], [name |-> "v", buildTime |-> 2500] }

DashFileValues ==
    { [name |-> d.name, buildTime |-> d.buildTime, parses |-> TRUE, intervals |-> ivs] :
        d \in DashUnits, ivs \in SeqsUpTo(DashIntervals, MaxPerUnit) \ {<<>>} }
    \cup { [name |-> "u", buildTime |-> 0, parses |-> TRUE, intervals |-> <<>>],
           [name |-> "u", buildTime |-> 0, parses |-> FALSE, intervals |-> <<>>] }

\* Math.round(x / 1000): the nearest integer, a half rounded up
RoundMs(x) == (x + 500) \div 1000

BuildIncludeHierarchy(ivs) == [k \in DOMAIN ivs |-> MakeEntry(ivs, k)]

\* includesWithHierarchy.sort((a, b) => a.startTime - b.startTime)
SortByStartTime(incs) ==
    LET order == SortStable(IdxSeq(Len(incs)), [k \in DOMAIN incs |-> incs[k].startTime])
    IN [k \in DOMAIN incs |-> incs[order[k]]]

\* fileUsageCount.set(file, (fileUsageCount.get(file) || 0) + 1): an entry keeps its place
CountFile(m, file) ==
    IF \E p \in DOMAIN m : m[p].file = file
    THEN [p \in DOMAIN m |-> IF m[p].file = file THEN [m[p] EXCEPT !.count = @ + 1] ELSE m[p]]
    ELSE Append(m, [file |-> file, count |-> 1])

\* the loop that counts the file and the parent file of every include, from position p on
RECURSIVE CountUsages(_, _, _)
CountUsages(m, incs, p) ==
    IF p > Len(incs) THEN m
    ELSE LET own == CountFile(m, incs[p].file)
         IN CountUsages(IF incs[p].parentFile # Null
                        THEN CountFile(own, incs[p].parentFile) ELSE own,
                        incs, p + 1)

\* the body of the try block for one file: what it leaves in the two aggregates
KeepEmptyUnit(st, f) ==
    IF f.parses
    THEN LET includesWithHierarchy == SortByStartTime(BuildIncludeHierarchy(f.intervals))
         IN [units |-> Append(st.units, [name |-> f.name, buildTime |-> f.buildTime,
                                         includes |-> includesWithHierarchy]),
             counts |-> CountUsages(st.counts, includesWithHierarchy, 1)]
    ELSE st
ProcessUnit(st, f) ==
    IF f.parses /\ Len(f.intervals) # 0
    THEN LET includesWithHierarchy == SortByStartTime(BuildIncludeHierarchy(f.intervals))
         IN [units |-> Append(st.units, [name |-> f.name, buildTime |-> f.buildTime,
                                         includes |-> includesWithHierarchy]),
             counts |-> CountUsages(st.counts, includesWithHierarchy, 1)]
    ELSE st

\* Array.from(fileUsageCount.entries()).sort((a, b) => b[1] - a[1]).map(([file, _]) => file)
FilesUnsorted(m) == [k \in DOMAIN m |-> m[k].file]
FilesArray(m) ==
    LET order == SortStable(IdxSeq(Len(m)), [k \in DOMAIN m |-> 0 - m[k].count])
    IN [k \in DOMAIN m |-> m[order[k]].file]

\* fileToId.get(file)
FileToId(files, file) == (CHOOSE p \in DOMAIN files : files[p] = file) - 1

\* compilationUnitsData.sort((a, b) => b.includes.length - a.includes.length)
UnsortedUnits(units) == units
SortUnits(units) ==
    LET order == SortStable(IdxSeq(Len(units)),
                            [k \in DOMAIN units |-> 0 - Len(units[k].includes)])
    IN [k \in DOMAIN units |-> units[order[k]]]

\* the startTimes of a unit from position p on, prevStartTime being the last start in ms
RECURSIVE DeltaEncode(_, _, _)
DeltaEncode(incs, p, prevStartTime) ==
    IF p > Len(incs) THEN <<>>
    ELSE LET startTimeMs == RoundMs(incs[p].startTime)
         IN <<startTimeMs - prevStartTime>> \o DeltaEncode(incs, p + 1, startTimeMs)

AbsoluteEncode(incs) == [k \in DOMAIN incs |-> RoundMs(incs[k].startTime)]
StartTimesOf(incs) == DeltaEncode(incs, 1, 0)

OwnFileIds(files, incs) == [k \in DOMAIN incs |-> FileToId(files, incs[k].file)]
ParentFileIdsZero(files, incs) ==
    [k \in DOMAIN incs |->
        IF incs[k].parentFile # Null THEN FileToId(files, incs[k].parentFile) ELSE 0]
ParentFileIds(files, incs) ==
    [k \in DOMAIN incs |->
        IF incs[k].parentFile # Null THEN FileToId(files, incs[k].parentFile) ELSE -1]

InitDash ==
    /\ pc = "process"
    /\ events = <<>>
    /\ endMap = <<>>
    /\ bi = 0
    /\ intervals = <<>>
    /\ tool = "dashboard"
    /\ hi = 0
    /\ stack = <<>>
    /\ sourceMarkers = <<>>
    /\ result = <<>>
    /\ tables = EmptyTables
    /\ calls = NoCalls
    /\ mode = "directory"
    /\ jsonFiles \in SeqsUpTo(DashFileValues, MaxFiles) \ {<<>>}
    /\ Cardinality({j \in DOMAIN jsonFiles : Yields(jsonFiles[j])}) <= MaxUnits
    /\ fi = 0
    /\ allSourceMarkers = <<>>
    /\ timeOffset = 0
    /\ ui = 0
    /\ samples = EmptySamples
    /\ mi = 0
    /\ IdleDash
    /\ IdleUnits

\* one iteration of the loop over jsonFiles, with its try/catch
ProcessFile ==
    /\ pc = "process"
    /\ fi < Len(jsonFiles)
    /\ LET st == ProcessUnit([units |-> compilationUnitsData, counts |-> fileUsageCount],
                             jsonFiles[fi + 1])
       IN /\ compilationUnitsData' = st.units
          /\ fileUsageCount' = st.counts
    /\ fi' = fi + 1
    /\ UNCHANGED <<pc, matchVars, intervals, hierVars, tableVars, mode, jsonFiles,
                   allSourceMarkers, timeOffset, ui, samples, mi, output, unitVars>>

\* the file table, the order of the units, and the names and build times of the units
SortTables ==
    /\ pc = "process"
    /\ fi = Len(jsonFiles)
    /\ LET sorted == SortUnits(compilationUnitsData)
       IN /\ compilationUnitsData' = sorted
          /\ output' = [EmptyOutput EXCEPT
                            !.files = FilesArray(fileUsageCount),
                            !.names = [k \in DOMAIN sorted |-> sorted[k].name],
                            !.buildTimes =
                                [k \in DOMAIN sorted |-> RoundMs(sorted[k].buildTime)]]
    /\ ui' = 0
    /\ pc' = "encode"
    /\ UNCHANGED <<matchVars, intervals, hierVars, tableVars, mode, jsonFiles, fi,
                   allSourceMarkers, timeOffset, samples, mi, fileUsageCount, unitVars>>

\* one iteration of the loop over cuId
EncodeUnit ==
    /\ pc = "encode"
    /\ ui < Len(compilationUnitsData)
    /\ LET cu == compilationUnitsData[ui + 1]
       IN output' = [output EXCEPT
                        !.fileIds = Append(@, OwnFileIds(output.files, cu.includes)),
                        !.startTimes = Append(@, StartTimesOf(cu.includes)),
                        !.durations =
                            Append(@, [k \in DOMAIN cu.includes |->
                                          RoundMs(cu.includes[k].duration)]),
                        !.parentFileIds = Append(@, ParentFileIds(output.files, cu.includes))]
    /\ ui' = ui + 1
    /\ UNCHANGED <<pc, matchVars, intervals, hierVars, tableVars, mode, jsonFiles, fi,
                   allSourceMarkers, timeOffset, samples, mi, compilationUnitsData,
                   fileUsageCount, unitVars>>

\* fs.writeFileSync(outputFile, JSON.stringify(output))
WriteOutput ==
    /\ pc = "encode"
    /\ ui = Len(compilationUnitsData)
    /\ pc' = "written"
    /\ UNCHANGED <<matchVars, intervals, hierVars, tableVars, mainVars, dashVars, unitVars>>

NextDash == ProcessFile \/ SortTables \/ EncodeUnit \/ WriteOutput

SpecDash == InitDash /\ [][NextDash]_vars

(***************************************************************************)
(* C11.  Dashboard file dictionary.  tables.files holds exactly the file   *)
(* paths that occur as the file or the parent file of an include of a      *)
(* retained unit, each once; with count(f) the number of includes whose    *)
(* file is f plus the number whose parentFile is f, the counts of the      *)
(* files are non-increasing along the array; the id of a file is its index.*)
(***************************************************************************)
\* the includes of units 1..n of compilationUnitsData, as <<unit, position>>
IncludesOf(n) ==
    {it \in (1..n) \X (1..MaxPerUnit) : it[2] <= Len(compilationUnitsData[it[1]].includes)}

IncludeAt(it) == compilationUnitsData[it[1]].includes[it[2]]

UsageCount(f) ==
    Cardinality({it \in IncludesOf(Len(compilationUnitsData)) : IncludeAt(it).file = f})
    + Cardinality({it \in IncludesOf(Len(compilationUnitsData)) : IncludeAt(it).parentFile = f})

UsedFiles == {f \in Files : UsageCount(f) > 0}

C11_FileDictionary ==
    /\ (tool = "dashboard" /\ pc = "process") =>
        /\ {fileUsageCount[p].file : p \in DOMAIN fileUsageCount} = UsedFiles
        /\ \A p \in DOMAIN fileUsageCount :
            fileUsageCount[p].count = UsageCount(fileUsageCount[p].file)
    /\ (tool = "dashboard" /\ pc \in {"encode", "written"}) =>
        /\ Range(output.files) = UsedFiles
        /\ Injective(output.files)
        /\ \A i \in 1..(Len(output.files) - 1) :
            UsageCount(output.files[i]) >= UsageCount(output.files[i + 1])
        /\ \A i \in DOMAIN output.files : FileToId(output.files, output.files[i]) = i - 1
        /\ \A u \in DOMAIN output.fileIds : \A k \in DOMAIN output.fileIds[u] :
            output.fileIds[u][k] = FileToId(output.files, IncludeAt(<<u, k>>).file)

\* the file counted first is not the most used one: the sort moves it; a parent file counts
C11_Witness ==
    /\ tool = "dashboard" /\ pc = "written"
    /\ Len(output.files) = 2
    /\ output.files[1] # fileUsageCount[1].file
    /\ UsageCount(output.files[1]) > UsageCount(output.files[2])
    /\ \E it \in IncludesOf(Len(compilationUnitsData)) :
        IncludeAt(it).parentFile = output.files[1]

(***************************************************************************)
(* C12.  Dashboard positional alignment.  names, buildTimes, fileIds,      *)
(* startTimes, durations and parentFileIds have one entry per retained     *)
(* unit, at the same index; the four inner arrays of a unit have one entry *)
(* per interval of the unit, and position k of each describes the same     *)
(* interval: its file through files, its rounded duration, and its parent  *)
(* file id, which is -1 exactly when no interval contains it and otherwise *)
(* the index in files of the file of a nearest container.                  *)
(***************************************************************************)
Perms(n) == {f \in [1..n -> 1..n] : \A i \in 1..n : \A j \in 1..n : f[i] = f[j] => i = j}

RECURSIVE PrefixSum(_, _)
PrefixSum(s, k) == IF k = 0 THEN 0 ELSE PrefixSum(s, k - 1) + s[k]

NearestContainers(ivs, i) ==
    {j \in ContainerSet(ivs, i) :
        \A m \in ContainerSet(ivs, i) : ivs[j].duration <= ivs[m].duration}

\* position k of the arrays of output unit u describes interval i of the intervals raw
Describes(u, k, raw, i) ==
    LET fid == output.fileIds[u][k]
        pid == output.parentFileIds[u][k]
    IN /\ fid \in 0..(Len(output.files) - 1)
       /\ output.files[fid + 1] = raw[i].file
       /\ output.durations[u][k] = RoundMs(raw[i].duration)
       /\ PrefixSum(output.startTimes[u], k) = RoundMs(raw[i].startTime)
       /\ (pid = -1) <=> (ContainerSet(raw, i) = {})
       /\ ContainerSet(raw, i) # {} =>
            /\ pid \in 0..(Len(output.files) - 1)
            /\ \E j \in NearestContainers(raw, i) : output.files[pid + 1] = raw[j].file

C12_PositionalAlignment ==
    (tool = "dashboard" /\ pc = "written") =>
        LET n == Len(Kept) IN
        /\ Len(output.names) = n /\ Len(output.buildTimes) = n
        /\ Len(output.fileIds) = n /\ Len(output.startTimes) = n
        /\ Len(output.durations) = n /\ Len(output.parentFileIds) = n
        /\ \E pi \in Perms(n) : \A u \in 1..n :
            LET f == jsonFiles[Kept[pi[u]]]
                m == Len(f.intervals)
            IN /\ output.names[u] = f.name
               /\ output.buildTimes[u] = RoundMs(f.buildTime)
               /\ Len(output.fileIds[u]) = m /\ Len(output.startTimes[u]) = m
               /\ Len(output.durations[u]) = m /\ Len(output.parentFileIds[u]) = m
               /\ \E sg \in Perms(m) : \A k \in 1..m : Describes(u, k, f.intervals, sg[k])

\* two units; in one the intervals were reordered by the sort on start time, and its
\* second position has a parent of another file
C12_Witness ==
    /\ tool = "dashboard" /\ pc = "written"
    /\ Len(output.names) = 2
    /\ \E j \in DOMAIN jsonFiles : \E u \in DOMAIN output.names :
        LET raw == jsonFiles[j].intervals
        IN /\ Len(raw) = 2 /\ raw[1].startTime > raw[2].startTime
           /\ output.names[u] = jsonFiles[j].name
           /\ Len(output.fileIds[u]) = 2
           /\ output.parentFileIds[u] = <<-1, output.fileIds[u][1]>>
           /\ output.fileIds[u][1] # output.fileIds[u][2]
           /\ output.durations[u] = <<2, 1>>

(***************************************************************************)
(* C13.  Dashboard delta encoding.  The includes of a unit are in          *)
(* ascending order of start time; startTimes[0] is the start of the first  *)
(* one and startTimes[k] the start of the k-th minus the start of the      *)
(* (k-1)-th, every start being rounded to whole milliseconds first; the    *)
(* running sum of startTimes gives back the rounded start of every         *)
(* include.                                                                *)
(***************************************************************************)
C13_DeltaEncoding ==
    (tool = "dashboard" /\ pc \in {"encode", "written"}) =>
        \A u \in DOMAIN output.startTimes :
            LET incs == compilationUnitsData[u].includes
                st == output.startTimes[u]
            IN /\ Len(st) = Len(incs)
               /\ \A k \in DOMAIN incs :
                    /\ k > 1 => incs[k - 1].startTime <= incs[k].startTime
                    /\ st[k] = RoundMs(incs[k].startTime)
                                - (IF k = 1 THEN 0 ELSE RoundMs(incs[k - 1].startTime))
                    /\ PrefixSum(st, k) = RoundMs(incs[k].startTime)

\* as stated: the running sum, in milliseconds, is the original start time exactly, and
\* a delta is the difference of the original start times
C13_DeltaEncodingOriginal ==
    (tool = "dashboard" /\ pc \in {"encode", "written"}) =>
        \A u \in DOMAIN output.startTimes :
            LET incs == compilationUnitsData[u].includes
                st == output.startTimes[u]
            IN \A k \in DOMAIN incs :
                /\ 1000 * st[k] = incs[k].startTime
                                   - (IF k = 1 THEN 0 ELSE incs[k - 1].startTime)
                /\ 1000 * PrefixSum(st, k) = incs[k].startTime

\* a second include starting 600 microseconds after the first: its delta is 1
C13_Witness ==
    /\ tool = "dashboard" /\ pc = "written"
    /\ \E u \in DOMAIN output.startTimes :
        /\ output.startTimes[u] = <<0, 1>>
        /\ compilationUnitsData[u].includes[1].startTime = 0
        /\ compilationUnitsData[u].includes[2].startTime = 600

(***************************************************************************)
(* C14.  Dashboard unit order.  The units appear in names, and in every    *)
(* parallel array, in descending order of their number of intervals, and   *)
(* every retained unit appears exactly once.                               *)
(***************************************************************************)
C14_UnitOrder ==
    (tool = "dashboard" /\ pc \in {"encode", "written"}) =>
        LET n == Len(Kept) IN
        /\ Len(output.names) = n
        /\ Len(compilationUnitsData) = n
        /\ \A u \in 1..(n - 1) :
            Len(compilationUnitsData[u].includes) >= Len(compilationUnitsData[u + 1].includes)
        /\ \E pi \in Perms(n) : \A u \in 1..n :
            /\ output.names[u] = jsonFiles[Kept[pi[u]]].name
            /\ Len(compilationUnitsData[u].includes) = Len(jsonFiles[Kept[pi[u]]].intervals)
        /\ pc = "written" =>
            \A u \in 1..n :
                /\ Len(output.fileIds[u]) = Len(compilationUnitsData[u].includes)
                /\ u < n => Len(output.fileIds[u]) >= Len(output.fileIds[u + 1])

\* the unit read first has fewer intervals than the unit read second and comes out second
C14_Witness ==
    /\ tool = "dashboard" /\ pc = "written"
    /\ Len(Kept) = 2
    /\ Len(jsonFiles[Kept[1]].intervals) < Len(jsonFiles[Kept[2]].intervals)
    /\ jsonFiles[Kept[1]].name # jsonFiles[Kept[2]].name
    /\ output.names = <<jsonFiles[Kept[2]].name, jsonFiles[Kept[1]].name>>
    /\ Len(output.fileIds[1]) = 2 /\ Len(output.fileIds[2]) = 1

(***************************************************************************)
(* A run of either tool: the profiler on a directory or on a single file,  *)
(* or the dashboard on a directory.                                        *)
(***************************************************************************)
InitAggregate == InitProfile \/ InitDash

NextAggregate == NextProfile \/ NextDash

SpecAggregate == InitAggregate /\ [][NextAggregate]_vars

(***************************************************************************)
(* C15.  Per-unit failure isolation in directory runs of both tools.  A    *)
(* file whose reading or parsing throws, or which yields no interval,      *)
(* leaves the aggregate state as it was: no entry in the unit list, no     *)
(* change of the file usage counts, no samples; the other files are        *)
(* processed as if it had not been there, and the run is not aborted.      *)
(***************************************************************************)
\* the files among the first n that parse and yield intervals
KeptUpTo(n) == SelectSeq(IdxSeq(n), LAMBDA j : Yields(jsonFiles[j]))

ExpectedDashUnits(n) ==
    [u \in DOMAIN KeptUpTo(n) |->
        LET f == jsonFiles[KeptUpTo(n)[u]]
        IN [name |-> f.name, buildTime |-> f.buildTime,
            includes |-> SortByStartTime(BuildIncludeHierarchy(f.intervals))]]

ExpectedProfilerUnits(n) ==
    [u \in DOMAIN KeptUpTo(n) |->
        LET f == jsonFiles[KeptUpTo(n)[u]]
            markers == ExtractSourceMarkers(f.intervals)
        IN [file |-> f.name,
            markers |-> [k \in DOMAIN markers |-> WithUnit(markers[k], f.name)]]]

TotalIntervals ==
    SumOver(Range(Kept), [j \in DOMAIN jsonFiles |-> Len(jsonFiles[j].intervals)])

C15_FailureIsolation ==
    /\ mode = "directory" => pc # "crashed"
    /\ (tool = "dashboard" /\ pc = "process") =>
        /\ compilationUnitsData = ExpectedDashUnits(fi)
        /\ {fileUsageCount[p].file : p \in DOMAIN fileUsageCount} = UsedFiles
        /\ \A p \in DOMAIN fileUsageCount :
            fileUsageCount[p].count = UsageCount(fileUsageCount[p].file)
    /\ (tool = "dashboard" /\ pc = "written") =>
        /\ Len(output.names) = Len(Kept)
        /\ \A u \in DOMAIN output.fileIds : Len(output.fileIds[u]) > 0
    /\ (tool = "profiler" /\ mode = "directory" /\ pc = "main") =>
        allSourceMarkers = ExpectedProfilerUnits(fi)
    /\ (tool = "profiler" /\ mode = "directory" /\ pc \in {"convert", "samples", "done"}) =>
        /\ Len(allSourceMarkers) = Len(Kept)
        /\ Len(sourceMarkers) = TotalIntervals
        /\ pc = "done" => samples.length = TotalIntervals

\* dashboard: a file that does not parse, a unit, and a file without intervals
C15_Witness ==
    /\ tool = "dashboard" /\ pc = "written"
    /\ Len(jsonFiles) = 3
    /\ ~ jsonFiles[1].parses
    /\ Yields(jsonFiles[2])
    /\ jsonFiles[3].parses /\ jsonFiles[3].intervals = <<>>
    /\ output.names = <<jsonFiles[2].name>>
    /\ Len(output.files) = 2

\* profiler: a unit, a file that does not parse, and a second unit
C15_WitnessProfiler ==
    /\ tool = "profiler" /\ mode = "directory" /\ pc = "done"
    /\ Len(jsonFiles) = 3
    /\ Yields(jsonFiles[1]) /\ ~ jsonFiles[2].parses /\ Yields(jsonFiles[3])
    /\ Len(allSourceMarkers) = 2
    /\ samples.length = 4

(***************************************************************************)
(* C16.  A directory run in which input files are found but no unit yields *)
(* an interval ends in a fatal error and emits no output document.         *)
(***************************************************************************)
\* the output document has been produced and handed to the writer
Emitted == pc \in {"done", "written"}

C16_NoUnitsFatal ==
    (mode = "directory" /\ Kept = <<>>) => ~ Emitted

(***************************************************************************)
(* The reconstruction run on several units one after the other: every call *)
(* of extractSourceMarkers (and buildIncludeHierarchy) with the locals it  *)
(* creates.  The variables events, endMap, bi and intervals are the locals *)
(* of the call in progress; they keep their last value between two calls.  *)
(***************************************************************************)
\* correlation id 1 is reused by two headers
UnitEventValues ==
    { [cat |-> "Source", ph |-> "b", pid |-> 1, tid |-> 1, id |-> 1, ts |-> 0,
       detail |-> "a.h"],
      [cat |-> "Source", ph |-> "b", pid |-> 1, tid |-> 1, id |-> 1, ts |-> 1,
       detail |-> "b.h"],
      [cat |-> "Source", ph |-> "e", pid |-> 1, tid |-> 1, id |-> 1, ts |-> 2,
       detail |-> NoDetail],
      [cat |-> "Source", ph |-> "e", pid |-> 1, tid |-> 1, id |-> 1, ts |-> 3,
       detail |-> NoDetail] }

\* the event arrays of a unit: every event occurs once
UnitTraces == {evs \in SeqsUpTo(UnitEventValues, MaxUnitEvents) : Injective(evs)}

\* const intervals = []
SharedIntervals(old) == old
NewIntervals(old) == <<>>

\* what the tool derives from the intervals of a unit
LinksOf(t, ivs) ==
    IF t = "profiler" THEN ExtractSourceMarkers(ivs) ELSE BuildIncludeHierarchy(ivs)

InitUnits ==
    /\ pc = "units"
    /\ events = <<>>
    /\ endMap = <<>>
    /\ bi = 0
    /\ intervals = <<>>
    /\ tool \in {"profiler", "dashboard"}
    /\ hi = 0
    /\ stack = <<>>
    /\ sourceMarkers = <<>>
    /\ result = <<>>
    /\ tables = EmptyTables
    /\ calls = NoCalls
    /\ IdleMain
    /\ IdleDash
    /\ traces \in SeqsUpTo(UnitTraces, MaxTraces) \ {<<>>}
    /\ unitResults = <<>>

\* the call for the next unit, up to the end of the loop that indexes the end events
StartUnit ==
    /\ pc = "units"
    /\ Len(unitResults) < Len(traces)
    /\ events' = traces[Len(unitResults) + 1]
    /\ intervals' = NewIntervals(intervals)
    /\ endMap' = BuildEndMap(events')
    /\ bi' = 0
    /\ pc' = "match"
    /\ UNCHANGED <<hierVars, tableVars, mainVars, dashVars, unitVars>>

\* the rest of the call: hierarchy and self time, or nearest parents; the return
FinishUnit ==
    /\ pc = "matched"
    /\ Len(unitResults) < Len(traces)
    /\ unitResults' = Append(unitResults,
                             [intervals |-> intervals, links |-> LinksOf(tool, intervals)])
    /\ pc' = "units"
    /\ UNCHANGED <<matchVars, intervals, hierVars, tableVars, mainVars, dashVars, traces>>

NextUnits == StartUnit \/ MatchBegin \/ MatchDone \/ FinishUnit

SpecUnits == InitUnits /\ [][NextUnits]_vars

(***************************************************************************)
(* C17.  Unit independence of the reconstruction.  The intervals, the      *)
(* hierarchy links and the self-durations reconstructed for a unit are a   *)
(* function of the event list of that unit alone: they are what a call on  *)
(* that list with fresh locals gives, whatever units were handled before;  *)
(* the pools of end events hold events of the unit of the call only.       *)
(***************************************************************************)
\* the matching loop on one event list from begin number b on, with fresh locals
RECURSIVE MatchFrom(_, _, _, _)
MatchFrom(evs, map, b, ivs) ==
    IF b > Len(BeginEvents(evs)) THEN ivs
    ELSE LET e == evs[BeginEvents(evs)[b]]
             cands == EndCandidates(map, Key(e))
             p == FindMatchingEnd(evs, cands, e.ts)
         IN IF p # 0
            THEN MatchFrom(evs, [map EXCEPT ![Key(e)] = RemoveAt(cands, p)], b + 1,
                           Append(ivs, MakeInterval(e, evs[cands[p]])))
            ELSE MatchFrom(evs, map, b + 1, ivs)

Reconstruct(t, evs) ==
    LET ivs == MatchFrom(evs, BuildEndMap(evs), 1, <<>>)
    IN [intervals |-> ivs, links |-> LinksOf(t, ivs)]

C17_UnitIndependence ==
    /\ \A u \in DOMAIN unitResults : unitResults[u] = Reconstruct(tool, traces[u])
    /\ \A u \in DOMAIN unitResults : \A v \in DOMAIN unitResults :
        traces[u] = traces[v] => unitResults[u] = unitResults[v]
    /\ (traces # <<>> /\ pc \in {"match", "matched"}) =>
        \A key \in DOMAIN endMap : \A p \in DOMAIN endMap[key] :
            /\ endMap[key][p] \in DOMAIN events
            /\ IsEnd(events[endMap[key][p]])
            /\ Key(events[endMap[key][p]]) = key
            /\ events = traces[Len(unitResults) + 1]

\* the first unit leaves an end event in its pool and an interval in its list; the second
\* unit, another event list, gives two nested intervals
C17_Witness ==
    /\ pc = "units"
    /\ Len(unitResults) = 2
    /\ traces[1] # traces[2]
    /\ Len(EndEvents(traces[1])) = 2
    /\ Len(unitResults[1].intervals) = 1
    /\ Len(unitResults[2].intervals) = 2
    /\ Contains(unitResults[2].intervals[1], unitResults[2].intervals[2])
    /\ unitResults[2].links[2] # unitResults[2].links[1]

(***************************************************************************)
(* C18.  Greedy earliest-after matching.  For each begin event, in event   *)
(* order, the end event selected from the pool of its key is the one of    *)
(* smallest timestamp among those still in the pool whose timestamp is     *)
(* greater than that of the begin, whatever the order of the events in the *)
(* array; a begin without such an end gives no interval.                   *)
(***************************************************************************)
\* the begin event that the next iteration of the matching loop handles
CurrentBegin == events[BeginEvents(events)[bi + 1]]

\* the timestamps of the ends in the pool of the current begin that are later than it
LaterEnds ==
    LET pool == EndCandidates(endMap, Key(CurrentBegin))
    IN {events[pool[p]].ts : p \in DOMAIN pool} \cap
       {t \in Timestamps : t > CurrentBegin.ts}

C18_GreedyEarliest ==
    [][(pc = "match" /\ bi' = bi + 1) =>
        IF LaterEnds = {}
        THEN intervals' = intervals /\ endMap' = endMap
        ELSE /\ Len(intervals') = Len(intervals) + 1
             /\ intervals'[Len(intervals')].startTime = CurrentBegin.ts
             /\ \A t \in LaterEnds : intervals'[Len(intervals')].endTime <= t]_vars

(***************************************************************************)
(* C19.  One begin/end pair per interval.  In every state of the matching  *)
(* loop the intervals are built from distinct begin events already handled *)
(* and distinct end events, each pair sharing its (pid, tid, id) key; an   *)
(* end event that was consumed is in no pool, every other end event is in  *)
(* the pool of its key once; so there are never more intervals than begin  *)
(* events with detail, or than end events, also when ids are reused.       *)
(***************************************************************************)
HandledBegins == {BeginEvents(events)[k] : k \in 1..bi}

AllEnds == Range(EndEvents(events))

\* the number of places an end event has in the pools
PoolPlaces(e) ==
    Cardinality({kp \in UNION {{<<key, p>> : p \in DOMAIN endMap[key]} : key \in DOMAIN endMap} :
                    endMap[kp[1]][kp[2]] = e})

C19_OnePairPerInterval ==
    (pc \in {"match", "matched"}) =>
        LET n == Len(intervals) IN
        /\ n <= bi
        /\ n <= Len(BeginEvents(events))
        /\ n <= Len(EndEvents(events))
        /\ \E g \in [1..n -> HandledBegins \X AllEnds] :
            /\ \A k \in 1..n : \A l \in 1..n :
                k # l => g[k][1] # g[l][1] /\ g[k][2] # g[l][2]
            /\ \A k \in 1..n :
                /\ SameKey(events[g[k][1]], events[g[k][2]])
                /\ intervals[k] = MakeInterval(events[g[k][1]], events[g[k][2]])
            /\ \A e \in AllEnds :
                PoolPlaces(e) = IF \E k \in 1..n : g[k][2] = e THEN 0 ELSE 1
        /\ \A key \in DOMAIN endMap : \A p \in DOMAIN endMap[key] :
            Key(events[endMap[key][p]]) = key

\* one correlation id used by two begins and two ends: two intervals, both pools empty
C19_Witness ==
    /\ pc = "matched"
    /\ Len(events) = 4
    /\ \A i \in DOMAIN events : IsSource(events[i]) /\ events[i].id = 1
    /\ Len(intervals) = 2
    /\ intervals[1].endTime # intervals[2].endTime
    /\ \A key \in DOMAIN endMap : endMap[key] = <<>>

(***************************************************************************)
(* C20.  Self-duration bounds.  The self-duration of a marker is at most   *)
(* the duration of its interval; when the intervals of the unit form a     *)
(* laminar family it is not negative, so a negative one comes with         *)
(* partially overlapping intervals only; the value is the computed         *)
(* difference as it is, never raised to 0.                                 *)
(***************************************************************************)
C20_SelfDurationBounds ==
    (tool = "profiler" /\ pc \in {"hierarchy", "done"}) =>
        \A k \in DOMAIN sourceMarkers :
            /\ sourceMarkers[k].duration <= intervals[k].duration
            /\ Laminar(intervals) => sourceMarkers[k].duration >= 0
            /\ sourceMarkers[k].duration < 0 =>
                \E i \in DOMAIN intervals : \E j \in DOMAIN intervals :
                    /\ ~ Disjoint(intervals[i], intervals[j])
                    /\ ~ Contains(intervals[i], intervals[j])
                    /\ ~ Contains(intervals[j], intervals[i])
            /\ sourceMarkers[k].duration =
                intervals[k].duration - DurationSum(intervals, DirectChildren(intervals, k))

\* an interval that holds two overlapping intervals: its self-duration is -1, as emitted
C20_Witness ==
    /\ tool = "profiler" /\ pc = "done"
    /\ Len(intervals) = 3
    /\ ~ Laminar(intervals)
    /\ \E k \in DOMAIN sourceMarkers :
        /\ sourceMarkers[k].duration = -1
        /\ intervals[k].duration = 3

(***************************************************************************)
(* C21.  Nearest-parent links are acyclic.  Starting at any interval of a  *)
(* unit and moving to the nearest parent that buildIncludeHierarchy chose  *)
(* reaches an interval without parent in at most n - 1 steps; no interval  *)
(* is its own ancestor, also when two intervals have the same start and    *)
(* end timestamps.                                                         *)
(***************************************************************************)
\* immediateParent of interval i, 0 for null
ParentOf(ivs, i) == ImmediateParentFrom(ivs, i, 1, 0)

\* the interval reached from i after at most fuel moves to the parent, 0 once past a root
RECURSIVE Ascend(_, _, _)
Ascend(ivs, i, fuel) ==
    IF i = 0 \/ fuel = 0 THEN i ELSE Ascend(ivs, ParentOf(ivs, i), fuel - 1)

C21_ParentsAcyclic ==
    (tool = "dashboard" /\ pc = "done") =>
        \A i \in DOMAIN intervals :
            /\ result[i].parentFile =
                (IF ParentOf(intervals, i) = 0 THEN Null
                 ELSE intervals[ParentOf(intervals, i)].file)
            /\ Ascend(intervals, i, Len(intervals)) = 0
            /\ \A d \in 1..Len(intervals) : Ascend(intervals, i, d) # i

(***************************************************************************)
(* C22.  Well-formed profile tables after every marker handled by          *)
(* convertToProfiler: every prefix is null or a smaller stack index, every *)
(* frame of a stack is a frame index, the frame and func tables have the   *)
(* same length and frame f has func f, every func name is a string index,  *)
(* the length of each table is the length of its columns, and the stack of *)
(* every sample is a stack index, never null.                              *)
(***************************************************************************)
C22_TablesWellFormed ==
    (pc \in {"samples", "done"}) =>
        LET st == tables.stackTable
            fr == tables.frameTable
            fn == tables.funcTable
        IN /\ Len(st.frame) = st.length /\ Len(st.prefix) = st.length
           /\ Len(fr.func) = fr.length /\ Len(fr.category) = fr.length
           /\ Len(fr.subcategory) = fr.length
           /\ Len(fn.name) = fn.length /\ Len(fn.fileName) = fn.length
           /\ Len(fn.resource) = fn.length
           /\ Len(samples.stack) = samples.length /\ Len(samples.time) = samples.length
           /\ Len(samples.weight) = samples.length
           /\ \A s \in DOMAIN st.prefix :
                /\ st.prefix[s] = NullStack \/ st.prefix[s] \in 0..(s - 2)
                /\ st.frame[s] \in 0..(fr.length - 1)
           /\ fr.length = fn.length
           /\ \A f \in DOMAIN fr.func : fr.func[f] = f - 1
           /\ \A f \in DOMAIN fn.name : fn.name[f] \in 0..(Len(tables.stringTable) - 1)
           /\ \A k \in DOMAIN samples.stack :
                /\ samples.stack[k] # NullStack
                /\ samples.stack[k] \in 0..(st.length - 1)

\* a directory run with four samples, stacks of depth 3 and a frame shared by two stacks
C22_Witness ==
    /\ pc = "done" /\ mode = "directory"
    /\ samples.length = 4
    /\ tables.stackTable.length >= 4
    /\ tables.frameTable.length = 3
    /\ \E s \in DOMAIN tables.stackTable.prefix : \E r \in DOMAIN tables.stackTable.prefix :
        /\ s # r
        /\ tables.stackTable.frame[s] = tables.stackTable.frame[r]
        /\ tables.stackTable.prefix[s] > 0

====
